---- MODULE Spec2Model ----
(***************************************************************************)
(* newsfeed_media_dl.py: scan the configured feeds, pass the links of the  *)
(* new matching entries to an external downloader, and keep a per-feed     *)
(* watermark in .newsfeed_media_dl.json.                                   *)
(*                                                                         *)
(* Time is counted in ticks; a day has DayLen ticks.  A datetime is the    *)
(* number of ticks since the epoch.  A title and a regular expression are  *)
(* sequences of characters; the regular expressions are literal ones.      *)
(* A raised exception is the field exc of a result ("none": it returned).  *)
(***************************************************************************)
EXTENDS Integers, Sequences, FiniteSets, TLC

MaxTime == 2

MaxEntries == 2

MaxFeeds == 2

MaxAge == 1

DayLen == 2

\* A parsed time attribute of an entry: a struct_time, no such attribute, or
\* the attribute set to None (feedparser could not parse the date).
StructTime(t) == [kind |-> "struct_time", t |-> t]

Absent == [kind |-> "absent", t |-> 0]

Unparsed == [kind |-> "None", t |-> 0]

Times == 0..MaxTime

Max(a, b) == IF a >= b THEN a ELSE b

SetMax(S) == CHOOSE x \in S : \A y \in S : x >= y

SetMin(S) == CHOOSE x \in S : \A y \in S : x <= y

SeqsUpTo(S, n) == UNION {[1..k -> S] : k \in 0..n}

(***************************************************************************)
(* The inputs: feed entries as feedparser hands them over, titles,         *)
(* patterns, links.                                                        *)
(***************************************************************************)
Titles == {<<"a", "b">>, <<"b", "a">>}

Patterns == {<<"a">>, <<"b">>}

Links == {<<"media", n>> : n \in 0..1}

\* published_parsed and updated_parsed of the entries that have a time.
TimedStamps ==
    {[published |-> StructTime(p), updated |-> Absent] : p \in Times}
    \cup {[published |-> Absent, updated |-> StructTime(MaxTime)],
          [published |-> StructTime(0), updated |-> StructTime(MaxTime)]}

Entries ==
    {[published |-> s.published, updated |-> s.updated, title |-> t, link |-> l] :
        s \in TimedStamps, t \in Titles, l \in Links}
    \cup {[published |-> Absent, updated |-> Absent, title |-> <<"a", "b">>, link |-> <<"media", 0>>],
          [published |-> Unparsed, updated |-> StructTime(0), title |-> <<"a", "b">>, link |-> <<"media", 0>>]}

FeedContents == SeqsUpTo(Entries, MaxEntries)

(***************************************************************************)
(* get_entry_datetime                                                      *)
(***************************************************************************)
\* datetime.fromtimestamp(time.mktime(struct_time))
mktime(parsed) == parsed.t

get_entry_datetime(entry) ==
    IF entry.published = Unparsed
    THEN [exc |-> "TypeError", etime |-> 0]
    ELSE IF entry.published # Absent
    THEN [exc |-> "none", etime |-> mktime(entry.published)]
    ELSE IF entry.updated # Absent
    THEN [exc |-> "none", etime |-> mktime(entry.updated)]
    ELSE [exc |-> "AttributeError", etime |-> 0]

(***************************************************************************)
(* re.match with a literal pattern: the pattern is found at position zero  *)
(* of the title; what follows it in the title does not matter.             *)
(***************************************************************************)
re_match(regex, title) ==
    /\ Len(regex) <= Len(title)
    /\ SubSeq(title, 1, Len(regex)) = regex

newer_or_same(etime, newer_than) == etime >= newer_than

newer(etime, newer_than) == etime > newer_than

(***************************************************************************)
(* extract_items, after feedparser.parse(url) gave content.entries         *)
(***************************************************************************)
RECURSIVE vurls_of(_, _, _)
vurls_of(entries, regex, newer_than) ==
    IF entries = <<>>
    THEN <<>>
    ELSE LET e == Head(entries)
             rest == vurls_of(Tail(entries), regex, newer_than)
         IN IF newer(get_entry_datetime(e).etime, newer_than) /\ re_match(regex, e.title)
            THEN <<e.link>> \o rest
            ELSE rest

newest_of(entries) ==
    SetMax({get_entry_datetime(entries[i]).etime : i \in 1..Len(entries)})

Raised(exception) == [exc |-> exception, vurls |-> <<>>, newest |-> 0]

extract_items_newest_match(entries, regex, newer_than) ==
    LET failing == {i \in 1..Len(entries) : get_entry_datetime(entries[i]).exc # "none"}
        matching == SelectSeq(entries, LAMBDA e : re_match(regex, e.title))
    IN IF failing # {}
       THEN Raised(get_entry_datetime(entries[SetMin(failing)]).exc)
       ELSE IF matching = <<>>
       THEN Raised("ValueError")
       ELSE [exc |-> "none",
             vurls |-> vurls_of(entries, regex, newer_than),
             newest |-> newest_of(matching)]

extract_items(entries, regex, newer_than) ==
    LET failing == {i \in 1..Len(entries) : get_entry_datetime(entries[i]).exc # "none"}
    IN IF failing # {}
       THEN Raised(get_entry_datetime(entries[SetMin(failing)]).exc)
       ELSE IF entries = <<>>
       THEN Raised("ValueError")
       ELSE [exc |-> "none",
             vurls |-> vurls_of(entries, regex, newer_than),
             newest |-> newest_of(entries)]

(***************************************************************************)
(* The settings file, the watermark file and the values they hold          *)
(***************************************************************************)
SUPPORTED_DOWNLOADERS == {"aria2c", "wget", "youtube-dl"}

URLS == {"u1", "u2"}

\* settings["directory"]: no such key, a directory that does not exist, one
\* that does.
Directories == {"<missing>", "/nonexistent", "/media"}

\* settings["maxage"]: no such key, a JSON number, a string of digits, some
\* other string, null.
MaxAges ==
    {[kind |-> k, n |-> 0] : k \in {"missing", "text", "null"}}
    \cup {[kind |-> k, n |-> n] : k \in {"int", "digits"}, n \in 0..MaxAge}

\* int(x)
py_int(x) ==
    CASE x.kind = "int" -> [exc |-> "none", n |-> x.n]
      [] x.kind = "digits" -> [exc |-> "none", n |-> x.n]
      [] x.kind = "text" -> [exc |-> "ValueError", n |-> 0]
      [] OTHER -> [exc |-> "TypeError", n |-> 0]

\* What datetime.now() reads: the run is started after the entries of the
\* feeds were published.
Clock == {MaxTime}

\* datetime.now().replace(hour=0, minute=0, second=0, microsecond=0)
\*     - timedelta(days=maxage)
start_of(now, maxage) == (now - (now % DayLen)) - maxage * DayLen

\* One element of settings["feeds"]: the keys it has, and their values.
\* The pattern "(" does not compile.
FeedKeys == {"url", "regex", "downloader"}

FeedConfigs ==
    {[keys |-> k, url |-> u, regex |-> r, downloader |-> d] :
        k \in {FeedKeys} \cup {FeedKeys \ {x} : x \in FeedKeys},
        u \in URLS, r \in Patterns \cup {<<"(">>}, d \in {"wget", "curl"}}

\* A value of the watermark file: a timestamp string "%Y-%m-%dT%H:%M:%S",
\* some other string, a number.
IsoString(t) == [fmt |-> "iso", t |-> t]

OtherString == [fmt |-> "text", t |-> 0]

Number == [fmt |-> "number", t |-> 0]

EmptyMap == [u \in {} |-> OtherString]

\* .newsfeed_media_dl.json: no file, a file that is not text (read() cannot
\* decode it), a file that is not JSON, a JSON value that is no object, an
\* object.
NoFile == [kind |-> "absent", map |-> EmptyMap]

NotText == [kind |-> "not text", map |-> EmptyMap]

NotJson == [kind |-> "not json", map |-> EmptyMap]

JsonList == [kind |-> "list", map |-> EmptyMap]

JsonObject(m) == [kind |-> "dict", map |-> m]

WatermarkFiles ==
    {NoFile, NotText, NotJson, JsonList}
    \cup {JsonObject([u \in D |-> IsoString(t)]) : D \in SUBSET URLS, t \in Times}
    \cup {JsonObject([u \in {"u1"} |-> v]) : v \in {OtherString, Number}}

\* datetime.isoformat() of a datetime without microseconds
isoformat_date_only(etime) == IsoString(etime - (etime % DayLen))

isoformat(etime) == IsoString(etime)

\* datetime.strptime(s, "%Y-%m-%dT%H:%M:%S")
strptime(s) ==
    CASE s.fmt = "iso" -> [exc |-> "none", t |-> s.t]
      [] s.fmt = "text" -> [exc |-> "ValueError", t |-> 0]
      [] OTHER -> [exc |-> "TypeError", t |-> 0]

\* Lines 143-154: what last_run is after the watermark file was read.
load_last_run(file) ==
    CASE file.kind = "absent" ->
            [exc |-> "none", store |-> JsonObject(EmptyMap), warning |-> FALSE]
      [] file.kind = "not text" ->
            [exc |-> "UnicodeDecodeError", store |-> JsonObject(EmptyMap), warning |-> FALSE]
      [] file.kind = "not json" ->
            [exc |-> "none", store |-> JsonObject(EmptyMap), warning |-> TRUE]
      [] OTHER -> [exc |-> "none", store |-> file, warning |-> FALSE]

\* Lines 168-173: newer_than of a feed.
cutoff_ignoring_start_time(start, store, feedurl) ==
    IF store.kind # "dict"
    THEN [exc |-> "TypeError", t |-> 0]
    ELSE IF feedurl \notin DOMAIN store.map
    THEN [exc |-> "none", t |-> start]
    ELSE strptime(store.map[feedurl])

cutoff(start, store, feedurl) ==
    IF store.kind # "dict"
    THEN [exc |-> "TypeError", t |-> 0]
    ELSE IF feedurl \notin DOMAIN store.map
    THEN [exc |-> "none", t |-> start]
    ELSE LET parsed == strptime(store.map[feedurl])
         IN IF parsed.exc # "none"
            THEN parsed
            ELSE [exc |-> "none", t |-> Max(start, parsed.t)]

\* Line 165
supported_any(name) == TRUE

supported(name) == name \in SUPPORTED_DOWNLOADERS

\* How check_call([downloader, vurl]) ends.
Outcomes == {"exit 0", "CalledProcessError", "OSError"}

\* download: what leaves it, given how check_call([downloader, vurl]) ended
\* ("exit 0", "CalledProcessError": a non-zero exit, "OSError": the program
\* could not be started).
download(outcome) ==
    CASE outcome = "CalledProcessError" -> [exc |-> "none", logged |-> {"Download failed"}]
      [] outcome = "OSError" -> [exc |-> "OSError", logged |-> {}]
      [] OTHER -> [exc |-> "none", logged |-> {}]

\* The feeds a run is served: every entry has its published time, and
\* entries of successive times have different links; or an entry has no time.
ServedEntries ==
    {e \in Entries :
        \/ /\ e.published.kind = "struct_time"
           /\ e.updated = Absent
           /\ e.link = <<"media", e.published.t % 2>>
        \/ e.published = Absent /\ e.updated = Absent}

Served == SeqsUpTo(ServedEntries, MaxEntries)

VARIABLES
    pc,          \* where download_new (or extract_items, on its own) stands
    content,     \* content.entries, of extract_items on its own
    regex,       \* the pattern of the feed
    newer_than,  \* the cutoff of the feed
    result,      \* (vurls, newest), or the exception of extract_items
    start_time,  \* line 127
    last_run,    \* the watermark store in memory
    url,         \* the URL of the feed
    downloader,  \* the downloader of the feed
    idx,         \* the number of links of the feed passed to download
    nfeed,       \* the number of elements of settings["feeds"] read
    exception,   \* what download_new ended with
    log,         \* the messages logged at warning and error severity
    disk,        \* .newsfeed_media_dl.json
    before,      \* .newsfeed_media_dl.json when the current feed was read
    done,        \* feed URL -> newest, of the feeds this run has checkpointed
    dispatched,  \* the links of the current feed passed to the downloader
    fetches,     \* the number of feeds retrieved by this run
    downloading, \* whether this run has passed a link to the downloader
    writes,      \* the number of times this run wrote the watermark file
    previous,    \* the runs completed before this one, and whether they downloaded
    settings,    \* the settings file, where two runs read the same one
    web          \* feed URL -> entries, where two runs retrieve the same feeds

locals == <<regex, newer_than, result, url, downloader, idx>>

observed == <<before, done, dispatched, fetches, downloading, writes>>

world == <<previous, settings, web>>

rvars == <<start_time, last_run, url, downloader, idx, nfeed, exception, log, disk,
           before, done, dispatched, fetches, downloading, writes, world>>

vars == <<pc, content, regex, newer_than, result, rvars>>

NoResult == Raised("pending")

NoException == [type |-> "none", message |-> "", at |-> ""]

NoStore == [kind |-> "unset", map |-> EmptyMap]

NoDone == [u \in {} |-> 0]

NoSettings == [maxage |-> [kind |-> "missing", n |-> 0], feeds |-> <<>>]

NoWeb == [u \in {} |-> <<>>]

Running ==
    {"load_settings", "directory", "maxage", "feeds", "load_last_run", "next_feed",
     "cutoff", "extract_items", "download", "checkpoint"}

InFeed == {"cutoff", "extract_items", "download", "checkpoint"}

\* The state download_new starts in.
RunInit ==
    /\ pc = "load_settings"
    /\ start_time = 0
    /\ last_run = NoStore
    /\ url = ""
    /\ downloader = ""
    /\ regex = <<>>
    /\ newer_than = 0
    /\ result = NoResult
    /\ idx = 0
    /\ nfeed = 0
    /\ exception = NoException
    /\ log = {}
    /\ before = disk
    /\ done = NoDone
    /\ dispatched = <<>>
    /\ fetches = 0
    /\ downloading = FALSE
    /\ writes = 0

\* One run; the settings and the feeds are drawn as the run reads them.
Init ==
    /\ content = <<>>
    /\ disk \in WatermarkFiles
    /\ previous = [runs |-> 0, downloading |-> FALSE]
    /\ settings = NoSettings
    /\ web = NoWeb
    /\ RunInit

\* raise InvalidInputDataException(message): __main__ logs it (lines 199-202).
RaiseInvalidInput(message) ==
    /\ pc' = "invalid_input"
    /\ exception' = [type |-> "InvalidInputDataException", message |-> message, at |-> pc]
    /\ log' = log \cup {"Invalid input"}

\* Any other exception leaves download_new and __main__: a traceback.
RaiseOther(type) ==
    /\ pc' = "traceback"
    /\ exception' = [type |-> type, message |-> "", at |-> pc]
    /\ log' = log

Continue(label) ==
    /\ pc' = label
    /\ UNCHANGED <<exception, log>>

\* Lines 110-113
LoadSettings(file) ==
    /\ pc = "load_settings"
    /\ CASE file = "unreadable" -> RaiseOther("IOError")
         [] file = "not json" -> RaiseOther("JSONDecodeError")
         [] OTHER -> Continue("directory")
    /\ UNCHANGED <<content, locals, start_time, last_run, nfeed, disk, observed, world>>

\* Lines 116-124
ParseDirectory(directory) ==
    /\ pc = "directory"
    /\ CASE directory = "<missing>" ->
                RaiseInvalidInput("No directory given in settings file")
         [] directory = "/nonexistent" ->
                RaiseInvalidInput("Directory given in settings file does not exist")
         [] OTHER -> Continue("maxage")
    /\ UNCHANGED <<content, locals, start_time, last_run, nfeed, disk, observed, world>>

\* Lines 125-135
ParseMaxage(maxage, now) ==
    /\ pc = "maxage"
    /\ IF maxage.kind = "missing"
       THEN /\ RaiseInvalidInput("No time frame given in settings file")
            /\ UNCHANGED start_time
       ELSE LET days == py_int(maxage)
            IN CASE days.exc = "TypeError" ->
                       /\ RaiseInvalidInput("Invalid time frame given in settings file")
                       /\ UNCHANGED start_time
                 [] days.exc = "ValueError" ->
                       /\ RaiseOther("ValueError")
                       /\ UNCHANGED start_time
                 [] OTHER ->
                       /\ start_time' = start_of(now, days.n)
                       /\ Continue("feeds")
    /\ UNCHANGED <<content, locals, last_run, nfeed, disk, observed, world>>

\* Lines 136-139
ParseFeeds(present) ==
    /\ pc = "feeds"
    /\ IF present
       THEN Continue("load_last_run")
       ELSE RaiseInvalidInput("No feeds given in settings file")
    /\ UNCHANGED <<content, locals, start_time, last_run, nfeed, disk, observed, world>>

\* Lines 143-154
LoadLastRun ==
    /\ pc = "load_last_run"
    /\ LET loaded == load_last_run(disk)
       IN IF loaded.exc # "none"
          THEN RaiseOther(loaded.exc) /\ UNCHANGED last_run
          ELSE /\ last_run' = loaded.store
               /\ log' = IF loaded.warning
                         THEN log \cup {"Ignoring .newsfeed_media_dl.json due to parsing error"}
                         ELSE log
               /\ pc' = "next_feed"
               /\ UNCHANGED exception
    /\ UNCHANGED <<content, locals, start_time, nfeed, disk, observed, world>>

\* Line 157, the list is exhausted: download_new returns.
Return ==
    /\ pc = "next_feed"
    /\ Continue("returned")
    /\ UNCHANGED <<content, locals, start_time, last_run, nfeed, disk, observed, world>>

\* Lines 157-167: the next element of settings["feeds"].
ReadFeed(feed) ==
    /\ pc = "next_feed"
    /\ nfeed < MaxFeeds
    /\ nfeed' = nfeed + 1
    /\ before' = disk
    /\ url' = IF "url" \in feed.keys THEN feed.url ELSE url
    /\ regex' = IF {"url", "regex"} \subseteq feed.keys /\ feed.regex \in Patterns
                THEN feed.regex
                ELSE regex
    /\ downloader' = IF feed.keys = FeedKeys /\ feed.regex \in Patterns
                     THEN feed.downloader
                     ELSE downloader
    /\ CASE "url" \notin feed.keys \/ "regex" \notin feed.keys ->
                RaiseInvalidInput("Invalid feeds list")
         [] feed.regex \notin Patterns -> RaiseOther("re.error")
         [] "downloader" \notin feed.keys -> RaiseInvalidInput("Invalid feeds list")
         [] ~supported(feed.downloader) -> RaiseInvalidInput("Unsupported downloader")
         [] OTHER -> Continue("cutoff")
    /\ UNCHANGED <<content, newer_than, result, idx, start_time, last_run, disk,
                   done, dispatched, fetches, downloading, writes, world>>

\* Lines 168-173
ComputeCutoff ==
    /\ pc = "cutoff"
    /\ LET c == cutoff(start_time, last_run, url)
       IN IF c.exc # "none"
          THEN RaiseOther(c.exc) /\ UNCHANGED newer_than
          ELSE newer_than' = c.t /\ Continue("extract_items")
    /\ UNCHANGED <<content, regex, result, url, downloader, idx, start_time, last_run,
                   nfeed, disk, observed, world>>

\* Line 177: feedparser.parse(url) retrieves the feed, which has these entries.
ExtractItems(entries) ==
    /\ pc = "extract_items"
    /\ fetches' = fetches + 1
    /\ LET r == extract_items(entries, regex, newer_than)
       IN IF r.exc # "none"
          THEN RaiseOther(r.exc) /\ UNCHANGED result
          ELSE result' = r /\ Continue("download")
    /\ UNCHANGED <<content, regex, newer_than, url, downloader, idx, start_time, last_run,
                   nfeed, disk, before, done, dispatched, downloading, writes, world>>

\* Lines 180-182: the next link of vurls; check_call ends with outcome.
Download(outcome) ==
    /\ pc = "download"
    /\ idx < Len(result.vurls)
    /\ idx' = idx + 1
    /\ dispatched' = Append(dispatched, result.vurls[idx + 1])
    /\ downloading' = TRUE
    /\ LET d == download(outcome)
       IN IF d.exc # "none"
          THEN /\ pc' = "traceback"
               /\ exception' = [type |-> d.exc, message |-> "", at |-> "download"]
               /\ log' = log
          ELSE /\ pc' = "download"
               /\ log' = log \cup d.logged
               /\ UNCHANGED exception
    /\ UNCHANGED <<content, regex, newer_than, result, url, downloader, start_time,
                   last_run, nfeed, disk, before, done, fetches, writes, world>>

\* The loop left while one link is still to be passed to download.
EndOfLinksOneEarly ==
    /\ pc = "download"
    /\ idx >= Len(result.vurls) - 1
    /\ Continue("checkpoint")
    /\ UNCHANGED <<content, locals, start_time, last_run, nfeed, disk, observed, world>>

\* Line 180, every link of vurls has been passed to download.
EndOfLinks ==
    /\ pc = "download"
    /\ idx >= Len(result.vurls)
    /\ Continue("checkpoint")
    /\ UNCHANGED <<content, locals, start_time, last_run, nfeed, disk, observed, world>>

\* The watermark kept in memory only, the file left for the end of the run.
CheckpointInMemory ==
    /\ pc = "checkpoint"
    /\ last_run' = JsonObject([u \in DOMAIN last_run.map \cup {url} |->
                                  IF u = url THEN isoformat(result.newest)
                                  ELSE last_run.map[u]])
    /\ done' = [u \in DOMAIN done \cup {url} |-> IF u = url THEN result.newest ELSE done[u]]
    /\ url' = ""
    /\ downloader' = ""
    /\ regex' = <<>>
    /\ newer_than' = 0
    /\ result' = NoResult
    /\ idx' = 0
    /\ dispatched' = <<>>
    /\ Continue("next_feed")
    /\ UNCHANGED <<content, start_time, nfeed, disk, before, writes, fetches, downloading,
                   world>>

\* Lines 186-189.  The variables of the loop body are dead at the end of the
\* iteration (each is assigned before it is read again): they are reset.
Checkpoint ==
    /\ pc = "checkpoint"
    /\ last_run' = JsonObject([u \in DOMAIN last_run.map \cup {url} |->
                                  IF u = url THEN isoformat(result.newest)
                                  ELSE last_run.map[u]])
    /\ disk' = last_run'
    /\ writes' = writes + 1
    /\ done' = [u \in DOMAIN done \cup {url} |-> IF u = url THEN result.newest ELSE done[u]]
    /\ before' = disk'
    /\ url' = ""
    /\ downloader' = ""
    /\ regex' = <<>>
    /\ newer_than' = 0
    /\ result' = NoResult
    /\ idx' = 0
    /\ dispatched' = <<>>
    /\ Continue("next_feed")
    /\ UNCHANGED <<content, start_time, nfeed, fetches, downloading, world>>

\* The process is terminated from outside.
Kill ==
    /\ pc \in Running
    /\ pc' = "killed"
    /\ exception' = [type |-> "killed", message |-> "", at |-> pc]
    /\ UNCHANGED <<content, locals, start_time, last_run, nfeed, log, disk, observed, world>>

Next ==
    \/ \E file \in {"unreadable", "not json", "dict"} : LoadSettings(file)
    \/ \E directory \in Directories : ParseDirectory(directory)
    \/ \E maxage \in MaxAges, now \in Clock : ParseMaxage(maxage, now)
    \/ \E present \in BOOLEAN : ParseFeeds(present)
    \/ LoadLastRun
    \/ \E feed \in FeedConfigs : ReadFeed(feed)
    \/ Return
    \/ ComputeCutoff
    \/ \E entries \in Served : ExtractItems(entries)
    \/ \E outcome \in Outcomes : Download(outcome)
    \/ EndOfLinks
    \/ Checkpoint
    \/ Kill

Spec == Init /\ [][Next]_vars

(***************************************************************************)
(* Two runs in immediate succession, with the same settings file and the   *)
(* same feeds: the settings and the feeds are fixed beforehand.            *)
(***************************************************************************)
RerunEntries ==
    {e \in ServedEntries :
        \/ e.published = StructTime(MaxTime - 1) /\ e.title = <<"a", "b">>
        \/ e.published = StructTime(MaxTime) /\ e.title = <<"b", "a">>}

RerunSettings ==
    {[maxage |-> m, feeds |-> f] :
        m \in {x \in MaxAges : x.kind = "int"},
        f \in SeqsUpTo({c \in FeedConfigs : c.keys = FeedKeys /\ c.regex = <<"a">>
                                            /\ c.downloader = "wget"}, MaxFeeds)}

InitRerun ==
    /\ content = <<>>
    /\ disk = NoFile
    /\ previous = [runs |-> 0, downloading |-> FALSE]
    /\ settings \in RerunSettings
    /\ web \in [URLS -> SeqsUpTo(RerunEntries, MaxEntries)]
    /\ RunInit

\* __main__ is started again, in the directory the run before left.
Restart ==
    /\ pc = "returned"
    /\ previous.runs = 0
    /\ previous' = [runs |-> 1, downloading |-> downloading]
    /\ pc' = "load_settings"
    /\ start_time' = 0
    /\ last_run' = NoStore
    /\ nfeed' = 0
    /\ before' = disk
    /\ done' = NoDone
    /\ fetches' = 0
    /\ downloading' = FALSE
    /\ writes' = 0
    /\ log' = {}
    /\ UNCHANGED <<content, locals, exception, disk, dispatched, settings, web>>

\* The clock of a run: the second run reads the same day or the next one.
ClockOfRun == IF previous.runs = 0 THEN Clock ELSE Clock \cup {t + DayLen : t \in Clock}

NextRerun ==
    \/ LoadSettings("dict")
    \/ ParseDirectory("/media")
    \/ \E now \in ClockOfRun : ParseMaxage(settings.maxage, now)
    \/ ParseFeeds(TRUE)
    \/ LoadLastRun
    \/ nfeed < Len(settings.feeds) /\ ReadFeed(settings.feeds[nfeed + 1])
    \/ nfeed = Len(settings.feeds) /\ Return
    \/ ComputeCutoff
    \/ ExtractItems(web[url])
    \/ \E outcome \in Outcomes : Download(outcome)
    \/ EndOfLinks
    \/ Checkpoint
    \/ Restart

SpecRerun == InitRerun /\ [][NextRerun]_vars

(***************************************************************************)
(* extract_items on its own: every feed, pattern and cutoff of the bounds. *)
(***************************************************************************)
InitExtract ==
    /\ content \in FeedContents
    /\ regex \in Patterns
    /\ newer_than \in Times
    /\ result = NoResult
    /\ pc = "call"
    /\ start_time = 0
    /\ last_run = NoStore
    /\ url = ""
    /\ downloader = ""
    /\ idx = 0
    /\ nfeed = 0
    /\ exception = NoException
    /\ log = {}
    /\ disk = NoFile
    /\ before = NoFile
    /\ done = NoDone
    /\ dispatched = <<>>
    /\ fetches = 0
    /\ downloading = FALSE
    /\ writes = 0
    /\ previous = [runs |-> 0, downloading |-> FALSE]
    /\ settings = NoSettings
    /\ web = NoWeb

CallExtractItems ==
    /\ pc = "call"
    /\ result' = extract_items(content, regex, newer_than)
    /\ pc' = "extracted"
    /\ UNCHANGED <<content, regex, newer_than, rvars>>

NextExtract == CallExtractItems

SpecExtract == InitExtract /\ [][NextExtract]_vars

(***************************************************************************)
(* The properties.  ResolvedTime and StartsWith state, apart from the      *)
(* definitions above, what the timestamp of an entry is and what a match   *)
(* at position zero is.                                                    *)
(***************************************************************************)
ResolvedTime(e) == IF e.published.kind = "struct_time" THEN e.published.t ELSE e.updated.t

StartsWith(title, prefix) == \E k \in 0..Len(title) : SubSeq(title, 1, k) = prefix

Qualifying ==
    {i \in 1..Len(content) :
        ResolvedTime(content[i]) > newer_than /\ StartsWith(content[i].title, regex)}

Aborted == {"invalid_input", "traceback"}

\* C1: extract_items returns in links exactly the links of the entries whose
\* timestamp is strictly greater than the cutoff and whose title matches the
\* pattern at position zero, in the order of the entries in the feed.
C1_LinksAreTheNewMatchingEntries ==
    (pc = "extracted" /\ result.exc = "none") =>
        /\ Len(result.vurls) = Cardinality(Qualifying)
        /\ \A i \in Qualifying :
            result.vurls[Cardinality({j \in Qualifying : j <= i})] = content[i].link

\* An entry at the cutoff whose title matches is left out, the entry after it
\* is kept.
C1_Witness ==
    /\ pc = "extracted"
    /\ result.exc = "none"
    /\ Len(content) = 2
    /\ ResolvedTime(content[1]) = newer_than
    /\ StartsWith(content[1].title, regex)
    /\ content[1].link # content[2].link
    /\ result.vurls = <<content[2].link>>

\* C2: for a feed with at least one entry, newest is at least the timestamp of
\* every entry and is the timestamp of one of them, whatever the pattern and
\* the cutoff; for a feed without entries extract_items raises an error.
C2_NewestIsTheMaximumOfAllEntries ==
    pc = "extracted" =>
        IF content = <<>>
        THEN result.exc = "ValueError"
        ELSE result.exc = "none" =>
                /\ \A i \in 1..Len(content) : result.newest >= ResolvedTime(content[i])
                /\ \E i \in 1..Len(content) : result.newest = ResolvedTime(content[i])

\* The newest entry fails the filter (its title does not match) and counts.
C2_Witness ==
    /\ pc = "extracted"
    /\ result.exc = "none"
    /\ Len(content) = 2
    /\ ~StartsWith(content[1].title, regex)
    /\ StartsWith(content[2].title, regex)
    /\ ResolvedTime(content[1]) > ResolvedTime(content[2])
    /\ result.newest = ResolvedTime(content[1])

\* C3: the cutoff passed to extract_items is max(start_time, watermark[url])
\* when the store has an entry for the URL of the feed and start_time when it
\* has none; start_time is computed once per run, before the first feed.
C3_CutoffIsMaxOfStartTimeAndWatermark ==
    /\ [](pc = "extract_items" =>
            newer_than = IF url \in DOMAIN last_run.map
                         THEN IF last_run.map[url].t > start_time
                              THEN last_run.map[url].t
                              ELSE start_time
                         ELSE start_time)
    /\ [][pc # "maxage" => start_time' = start_time]_vars

\* The second feed of a run, with a watermark older than start_time.
C3_Witness ==
    /\ pc = "extract_items"
    /\ nfeed = 2
    /\ url \in DOMAIN last_run.map
    /\ last_run.map[url].t < start_time
    /\ newer_than = start_time

\* C4: a run started right after a completed run, with the same settings, the
\* watermark file the first run left and the same feeds, passes no link to
\* the downloader.
C4_SecondRunDownloadsNothing == previous.runs = 1 => ~downloading

\* The first run downloaded; the second one has retrieved two feeds and returned.
C4_Witness ==
    /\ previous.runs = 1
    /\ previous.downloading
    /\ pc = "returned"
    /\ fetches = 2

\* C5: when a run aborts in a later feed, the watermark file holds the new
\* watermark of every feed checkpointed before and nothing new for the feed
\* it aborted in.
C5_AbortKeepsEarlierCheckpoints ==
    pc \in Aborted =>
        /\ disk = before
        /\ \A u \in DOMAIN done :
            /\ disk.kind = "dict"
            /\ u \in DOMAIN disk.map
            /\ disk.map[u] = IsoString(done[u])

\* A configuration error in the second feed, whose URL is not the first one's.
C5_Witness ==
    /\ pc = "invalid_input"
    /\ exception.at = "next_feed"
    /\ nfeed = 2
    /\ writes = 1
    /\ DOMAIN done # {}
    /\ url \notin DOMAIN done

\* C6, as claimed: a downloader outside the allow-list aborts the run before
\* any feed is retrieved and before any download, wherever the feed stands.
C6_AbortsBeforeAnyFeed ==
    (pc = "invalid_input" /\ exception.message = "Unsupported downloader") =>
        (fetches = 0 /\ ~downloading)

\* C6, amended: a feed whose downloader is outside the allow-list is neither
\* retrieved nor downloaded, and the run aborts at it: the feeds before it
\* have been retrieved and checkpointed, no feed after it is read.
C6_AbortsBeforeTheOffendingFeed ==
    /\ pc \in InFeed => downloader \in {"aria2c", "wget", "youtube-dl"}
    /\ (pc = "invalid_input" /\ exception.message = "Unsupported downloader") =>
            /\ fetches = nfeed - 1
            /\ writes = nfeed - 1
            /\ dispatched = <<>>
            /\ disk = before

\* The second feed names curl; the first one was retrieved and downloaded.
C6_Witness ==
    /\ pc = "invalid_input"
    /\ exception.message = "Unsupported downloader"
    /\ downloader = "curl"
    /\ nfeed = 2
    /\ fetches = 1
    /\ downloading

\* C7: a download failure, a non-zero exit or a downloader that cannot be
\* started, never leaves download: no run ends with an exception of download.
C7_DownloadFailureNeverPropagates ==
    ~(pc = "traceback" /\ exception.at = "download")

\* C8: a missing directory, a directory that does not exist, a missing or
\* non-numeric maxage, a missing feeds list: download_new ends with
\* InvalidInputDataException, before any feed is read, retrieved, downloaded
\* or checkpointed.
C8_SettingsDefectsAreConfigurationErrors ==
    (pc \in Aborted /\ exception.at \in {"directory", "maxage", "feeds"}) =>
        /\ exception.type = "InvalidInputDataException"
        /\ nfeed = 0
        /\ fetches = 0
        /\ ~downloading
        /\ writes = 0

\* C9: whatever the watermark file holds, the run goes on to process the
\* feeds: no run ends with an exception of the reading of the file or of the
\* lookup of a watermark, and a file that holds no usable store leaves an
\* empty one.
C9_WatermarkFileIsNeverFatal ==
    /\ ~(pc = "traceback" /\ exception.at \in {"load_last_run", "cutoff"})
    /\ (pc = "next_feed" /\ nfeed = 0 /\ (disk.kind # "dict"
            \/ \E u \in DOMAIN disk.map : disk.map[u].fmt # "iso")) =>
                last_run = JsonObject(EmptyMap)

====
